---- MODULE Spec2Model ----
(***************************************************************************)
(* Caesar cipher utilities (lib/cipher-utils): normalizeShift, encrypt,    *)
(* decrypt, bruteForce, getEnglishScore and findBestMatch.                 *)
(*                                                                         *)
(* A text is a sequence of UTF-16 code units (the elements text.split('')  *)
(* yields), each an integer.  A score is a JavaScript number; the values   *)
(* getEnglishScore produces are multiples of 1/(10000 * letterCount), and  *)
(* are kept as exact fractions [num, den] (IEEE rounding is not modelled). *)
(* The state is one call of the library: the function called, its          *)
(* arguments, and, once it has run, its return value or the error thrown   *)
(* (specification Spec), and the state of the CipherTool component, whose  *)
(* event handlers call the library (specification SpecUI).                 *)
(***************************************************************************)
EXTENDS Integers, Sequences, FiniteSets

VARIABLES op, argText, argShift, argResults, ret, outcome

\* The state of the CipherTool component (its useState cells) and the last
\* toast it raised.
VARIABLES plaintext, encryptShift, ciphertext,
          decryptCiphertext, decryptShift, decryptResult,
          bruteForceInput, bruteForceResults, showBruteForceDialog,
          toast

libVars == <<op, argText, argShift, argResults, ret, outcome>>

uiVars == <<plaintext, encryptShift, ciphertext,
            decryptCiphertext, decryptShift, decryptResult,
            bruteForceInput, bruteForceResults, showBruteForceDialog,
            toast>>

vars == <<libVars, uiVars>>

(* ------------------------------ bounds -------------------------------- *)

\* Longest enumerated text, in code units.
MaxLen == 3

\* Shifts are drawn from -MaxShift .. MaxShift.
MaxShift == 27

\* Longest enumerated candidate sequence handed to findBestMatch.
MaxCands == 3

(* ----------------------------- characters ----------------------------- *)

\* Code units the enumerated texts are built from:
\* ' ' '@' 'A' 'Z' 'a' 'z' U+0130 (I with dot above) U+212A (KELVIN SIGN).
Alphabet == {32, 64, 65, 90, 97, 122, 304, 8490}

\* "Hello, World!" and "Khoor, Zruog!".
HelloWorld == <<72, 101, 108, 108, 111, 44, 32, 87, 111, 114, 108, 100, 33>>

KhoorZruog == <<75, 104, 111, 111, 114, 44, 32, 90, 114, 117, 111, 103, 33>>

RECURSIVE TextsUpTo(_)
TextsUpTo(n) ==
    IF n = 0 THEN {<<>>}
    ELSE LET shorter == TextsUpTo(n - 1)
         IN  shorter \cup {Append(t, c) : t \in {s \in shorter : Len(s) = n - 1},
                                          c \in Alphabet}

Texts == TextsUpTo(MaxLen) \cup {HelloWorld, KhoorZruog}

Shifts == (-MaxShift) .. MaxShift

(* ------------------------- JavaScript arithmetic ---------------------- *)

\* a % b of JavaScript for integers and b > 0: the remainder of the division
\* truncated toward zero, so it has the sign of a.
JsRem(a, b) == IF a >= 0 THEN a % b ELSE -((-a) % b)

\* String.fromCharCode(n): n taken as an unsigned 16-bit code unit.
fromCharCode(n) == n % 65536

(* ------------------------------ the codec ----------------------------- *)

normalizeShiftNoAdd(shift) == JsRem(shift, 26)

normalizeShift(shift) == JsRem(JsRem(shift, 26) + 26, 26)

encryptCharNoWrap(char, normalizedShift) ==
    IF char >= 65 /\ char <= 90
    THEN fromCharCode((char - 65) + normalizedShift + 65)
    ELSE IF char >= 97 /\ char <= 122
    THEN fromCharCode((char - 97) + normalizedShift + 97)
    ELSE char

encryptCharUpperOnly(char, normalizedShift) ==
    IF (char >= 65 /\ char <= 90) \/ (char >= 97 /\ char <= 122)
    THEN LET base == IF char <= 90 THEN 65 ELSE 97
             shiftedCode == JsRem((char - base) + normalizedShift, 26)
         IN  fromCharCode(shiftedCode + 65)
    ELSE char

encryptCharWideRange(char, normalizedShift) ==
    IF char >= 64 /\ char <= 90
    THEN fromCharCode(JsRem((char - 65) + normalizedShift, 26) + 65)
    ELSE IF char >= 97 /\ char <= 123
    THEN fromCharCode(JsRem((char - 97) + normalizedShift, 26) + 97)
    ELSE char

\* The callback of text.split('').map(...) in encrypt.
encryptChar(char, normalizedShift) ==
    IF char >= 65 /\ char <= 90
    THEN LET charCode == char - 65
             shiftedCode == JsRem(charCode + normalizedShift, 26)
         IN  fromCharCode(shiftedCode + 65)
    ELSE IF char >= 97 /\ char <= 122
    THEN LET charCode == char - 97
             shiftedCode == JsRem(charCode + normalizedShift, 26)
         IN  fromCharCode(shiftedCode + 97)
    ELSE char

encrypt(text, shift) ==
    LET normalizedShift == normalizeShift(shift)
    IN  [i \in 1 .. Len(text) |-> encryptChar(text[i], normalizedShift)]

decryptSameSign(text, shift) == encrypt(text, shift)

decrypt(text, shift) == encrypt(text, -shift)

RECURSIVE bruteForceLoop(_, _, _)
bruteForceLoop(text, shift, results) ==
    IF shift < 26
    THEN bruteForceLoop(text, shift + 1,
                        Append(results, [shift |-> shift, text |-> encrypt(text, shift)]))
    ELSE results

bruteForceFromOne(text) == bruteForceLoop(text, 1, <<>>)

bruteForce(text) == bruteForceLoop(text, 0, <<>>)

(* ------------------------------ the scorer ---------------------------- *)

\* The unit the letter frequencies are written in: 0.082 is 820 / FreqScale.
FreqScale == 10000

\* englishFreqs, a .. z, in units of 1 / FreqScale.
EnglishFreqTable ==
    <<820, 150, 280, 430, 1270, 220, 200,
      610, 700, 15, 77, 400, 240, 670,
      750, 190, 10, 600, 630, 910, 280,
      98, 240, 15, 200, 74>>

englishFreqs(letter) == EnglishFreqTable[letter - 96]

RECURSIVE GCD(_, _)
GCD(a, b) == IF b = 0 THEN a ELSE GCD(b, a % b)

\* The number num / den (num >= 0, den > 0), in lowest terms, so that equal
\* numbers are equal values.
Number(num, den) ==
    LET g == GCD(num, den) IN [num |-> num \div g, den |-> den \div g]

\* a / b < c / d, for a, c >= 0 and b, d > 0, by continued fractions (no
\* product is formed).
RECURSIVE FracLess(_, _, _, _)
FracLess(a, b, c, d) ==
    LET qa == a \div b
        qc == c \div d
        ra == a % b
        rc == c % d
    IN  IF qa # qc THEN qa < qc
        ELSE IF rc = 0 THEN FALSE
        ELSE IF ra = 0 THEN TRUE
        ELSE FracLess(d, rc, b, ra)

\* x > y of two numbers.
NumberGt(x, y) == FracLess(y.num, y.den, x.num, x.den)

Abs(x) == IF x < 0 THEN -x ELSE x

Max(x, y) == IF x > y THEN x ELSE y

\* String.prototype.toLowerCase on one code unit.  Of the code units used
\* here, A .. Z map to a .. z, U+212A KELVIN SIGN maps to 'k', and U+0130
\* maps to 'i' followed by U+0307; the others are their own lower case.
toLowerCaseUnit(c) ==
    IF c >= 65 /\ c <= 90 THEN <<c + 32>>
    ELSE IF c = 8490 THEN <<107>>
    ELSE IF c = 304 THEN <<105, 775>>
    ELSE <<c>>

RECURSIVE toLowerCase(_)
toLowerCase(text) ==
    IF text = <<>> THEN <<>>
    ELSE toLowerCaseUnit(Head(text)) \o toLowerCase(Tail(text))

isLetterMatch(c) == c >= 97 /\ c <= 122

\* textLower.match(/[a-z]/g) || []
matchLetters(textLower) == SelectSeq(textLower, isLetterMatch)

\* freqs after the counting loop: the letters seen, each with its count.
countLetters(letters) ==
    [l \in {letters[i] : i \in 1 .. Len(letters)} |->
        Cardinality({i \in 1 .. Len(letters) : letters[i] = l})]

\* The letters the scoring loop visits: Object.entries(freqs).
scoredLettersAll(freqs) == 97 .. 122

scoredLetters(freqs) == DOMAIN freqs

\* The accumulated score of the scoring loop over the letters of todo, in
\* units of 1 / (FreqScale * n), n being letters.length.
RECURSIVE sumDeviation(_, _, _)
sumDeviation(todo, freqs, n) ==
    IF todo = {} THEN 0
    ELSE LET letter == CHOOSE l \in todo : TRUE
             freq == IF letter \in DOMAIN freqs THEN freqs[letter] ELSE 0
         IN  Abs(FreqScale * freq - englishFreqs(letter) * n)
             + sumDeviation(todo \ {letter}, freqs, n)

getEnglishScore(text) ==
    LET textLower == toLowerCase(text)
        letters == matchLetters(textLower)
        n == Len(letters)
    IN  IF n = 0 THEN Number(0, 1)
        ELSE LET freqs == countLetters(letters)
                 score == sumDeviation(scoredLetters(freqs), freqs, n)
             IN  Number(Max(0, FreqScale * n - score), FreqScale * n)

\* score > bestScore
isBetterOrEqual(score, bestScore) == ~NumberGt(bestScore, score)

isBetter(score, bestScore) == NumberGt(score, bestScore)

\* The loop over results.slice(1), and the returned object.
RECURSIVE findBestMatchLoop(_, _, _)
findBestMatchLoop(rest, bestMatch, bestScore) ==
    IF rest = <<>>
    THEN [shift |-> bestMatch.shift, text |-> bestMatch.text, score |-> bestScore]
    ELSE LET result == Head(rest)
             score == getEnglishScore(result.text)
         IN  IF isBetter(score, bestScore)
             THEN findBestMatchLoop(Tail(rest), result, score)
             ELSE findBestMatchLoop(Tail(rest), bestMatch, bestScore)

findBestMatchDefaulting(results) ==
    IF Len(results) = 0
    THEN [threw |-> FALSE,
          value |-> [shift |-> 0, text |-> <<>>, score |-> Number(0, 1)]]
    ELSE [threw |-> FALSE,
          value |-> findBestMatchLoop(Tail(results), results[1],
                                      getEnglishScore(results[1].text))]

\* results[0] of an empty array is undefined, and reading its .text throws a
\* TypeError.
findBestMatch(results) ==
    IF Len(results) = 0
    THEN [threw |-> TRUE, error |-> "TypeError"]
    ELSE [threw |-> FALSE,
          value |-> findBestMatchLoop(Tail(results), results[1],
                                      getEnglishScore(results[1].text))]

\* The candidates the enumerated sequences are built from: the texts
\* "", "a", "A", "z", "az", "za", KELVIN SIGN, each with shift 0 and 1.
CandTexts == {<<>>, <<97>>, <<65>>, <<122>>, <<97, 122>>, <<122, 97>>, <<8490>>}

Candidates == {[shift |-> s, text |-> t] : s \in {0, 1}, t \in CandTexts}

RECURSIVE SeqsUpTo(_, _)
SeqsUpTo(S, n) ==
    IF n = 0 THEN {<<>>}
    ELSE LET shorter == SeqsUpTo(S, n - 1)
         IN  shorter \cup {Append(q, x) : q \in {r \in shorter : Len(r) = n - 1},
                                          x \in S}

ResultsInputs == SeqsUpTo(Candidates, MaxCands) \cup {bruteForce(t) : t \in Texts}

(* ------------------------------ the calls ----------------------------- *)

NoValue == "undefined"

NoToast == [title |-> "", description |-> <<>>, variant |-> "default"]

\* The useState initial values of CipherTool.
InitialComponent ==
    /\ plaintext = <<>>
    /\ encryptShift = 3
    /\ ciphertext = <<>>
    /\ decryptCiphertext = <<>>
    /\ decryptShift = 3
    /\ decryptResult = <<>>
    /\ bruteForceInput = <<>>
    /\ bruteForceResults = <<>>
    /\ showBruteForceDialog = FALSE
    /\ toast = NoToast

\* A call of one of the exported functions is drawn with its arguments (an
\* argument the function does not take keeps its empty value); the action of
\* that function then runs it to its return or to the error it throws.
Init ==
    /\ InitialComponent
    /\ outcome = "called"
    /\ ret = NoValue
    /\ \/ /\ op = "normalizeShift"
          /\ argShift \in Shifts
          /\ argText = <<>>
          /\ argResults = <<>>
       \/ /\ op \in {"encrypt", "decrypt"}
          /\ argText \in Texts
          /\ argShift \in Shifts
          /\ argResults = <<>>
       \/ /\ op \in {"bruteForce", "getEnglishScore"}
          /\ argText \in Texts
          /\ argShift = 0
          /\ argResults = <<>>
       \/ /\ op = "findBestMatch"
          /\ argResults \in ResultsInputs
          /\ argText = <<>>
          /\ argShift = 0

NormalizeShift ==
    /\ outcome = "called"
    /\ op = "normalizeShift"
    /\ ret' = normalizeShift(argShift)
    /\ outcome' = "returned"
    /\ UNCHANGED <<op, argText, argShift, argResults, uiVars>>

Encrypt ==
    /\ outcome = "called"
    /\ op = "encrypt"
    /\ ret' = encrypt(argText, argShift)
    /\ outcome' = "returned"
    /\ UNCHANGED <<op, argText, argShift, argResults, uiVars>>

Decrypt ==
    /\ outcome = "called"
    /\ op = "decrypt"
    /\ ret' = decrypt(argText, argShift)
    /\ outcome' = "returned"
    /\ UNCHANGED <<op, argText, argShift, argResults, uiVars>>

BruteForce ==
    /\ outcome = "called"
    /\ op = "bruteForce"
    /\ ret' = bruteForce(argText)
    /\ outcome' = "returned"
    /\ UNCHANGED <<op, argText, argShift, argResults, uiVars>>

GetEnglishScore ==
    /\ outcome = "called"
    /\ op = "getEnglishScore"
    /\ ret' = getEnglishScore(argText)
    /\ outcome' = "returned"
    /\ UNCHANGED <<op, argText, argShift, argResults, uiVars>>

FindBestMatch ==
    /\ outcome = "called"
    /\ op = "findBestMatch"
    /\ LET r == findBestMatch(argResults)
       IN  IF r.threw
           THEN /\ outcome' = r.error
                /\ ret' = NoValue
           ELSE /\ outcome' = "returned"
                /\ ret' = r.value
    /\ UNCHANGED <<op, argText, argShift, argResults, uiVars>>

Next ==
    \/ NormalizeShift
    \/ Encrypt
    \/ Decrypt
    \/ BruteForce
    \/ GetEnglishScore
    \/ FindBestMatch

Spec == Init /\ [][Next]_vars

(* ---------------------------- the component --------------------------- *)

\* White space and line terminators, which String.prototype.trim strips.
IsWhiteSpace(c) ==
    \/ c \in {9, 10, 11, 12, 13, 32, 160, 5760, 8232, 8233, 8239, 8287, 12288, 65279}
    \/ c \in 8192 .. 8202

RECURSIVE trimStart(_)
trimStart(text) ==
    IF text # <<>> /\ IsWhiteSpace(Head(text)) THEN trimStart(Tail(text)) ELSE text

RECURSIVE trimEnd(_)
trimEnd(text) ==
    IF text # <<>> /\ IsWhiteSpace(text[Len(text)])
    THEN trimEnd(SubSeq(text, 1, Len(text) - 1))
    ELSE text

trim(text) == trimEnd(trimStart(text))

\* !text.trim(): the empty string is the only falsy string.
isBlank(text) == trim(text) = <<>>

\* String(n) of an integer n with |n| < 10^21: a '-' for a negative one, then
\* its decimal digits.
RECURSIVE digitsOf(_)
digitsOf(n) ==
    IF n < 10 THEN <<48 + n>> ELSE Append(digitsOf(n \div 10), 48 + (n % 10))

numberToString(n) == IF n < 0 THEN <<45>> \o digitsOf(-n) ELSE digitsOf(n)

NaN == [nan |-> TRUE, val |-> 0]

IsDigit(c) == c >= 48 /\ c <= 57

\* The value of the longest prefix of decimal digits of str, after acc.
RECURSIVE parseDigits(_, _)
parseDigits(str, acc) ==
    IF str # <<>> /\ IsDigit(Head(str))
    THEN parseDigits(Tail(str), 10 * acc + (Head(str) - 48))
    ELSE acc

\* parseInt(str, 10): leading white space is skipped, then an optional sign,
\* then the longest prefix of digits; NaN when there is no digit.
parseInt(str) ==
    LET s == trimStart(str)
        signed == s # <<>> /\ s[1] \in {43, 45}
        body == IF signed THEN Tail(s) ELSE s
        mag == parseDigits(body, 0)
    IN  IF body = <<>> \/ ~IsDigit(Head(body)) THEN NaN
        ELSE [nan |-> FALSE, val |-> IF signed /\ s[1] = 45 THEN -mag ELSE mag]

\* x || 0 of a number x: NaN and 0 are falsy.
orZero(x) == IF x.nan THEN 0 ELSE x.val

Toast(title, description, variant) ==
    [title |-> title, description |-> description, variant |-> variant]

\* The texts typed into the three text areas, and the values typed into the
\* two shift fields.
\* " ", " Za"
PlaintextInputs == {<<32>>, <<32, 90, 97>>}

\* "Az"
CiphertextInputs == {<<65, 122>>}

\* "", " ", "a", " Z"
BruteForceInputs == {<<>>, <<32>>, <<97>>, <<32, 90>>}

\* "" (the field emptied)
EncryptShiftInputs == {<<>>}

\* "-1"
DecryptShiftInputs == {<<45, 49>>}

OnPlaintextChange ==
    \E value \in PlaintextInputs :
        /\ plaintext' = value
        /\ UNCHANGED <<libVars, encryptShift, ciphertext,
                       decryptCiphertext, decryptShift, decryptResult,
                       bruteForceInput, bruteForceResults, showBruteForceDialog,
                       toast>>

OnEncryptShiftChange ==
    \E value \in EncryptShiftInputs :
        /\ encryptShift' = orZero(parseInt(value))
        /\ UNCHANGED <<libVars, plaintext, ciphertext,
                       decryptCiphertext, decryptShift, decryptResult,
                       bruteForceInput, bruteForceResults, showBruteForceDialog,
                       toast>>

handleEncrypt ==
    /\ IF isBlank(plaintext)
       THEN /\ toast' = Toast("Error", "Please enter text to encrypt", "destructive")
            /\ UNCHANGED ciphertext
       ELSE LET shift == parseInt(numberToString(encryptShift))
            IN  IF shift.nan
                THEN /\ toast' = Toast("Error", "Please enter a valid shift value",
                                       "destructive")
                     /\ UNCHANGED ciphertext
                ELSE /\ ciphertext' = encrypt(plaintext, shift.val)
                     /\ toast' = Toast("Success",
                                       <<"Text encrypted with shift", shift.val>>,
                                       "default")
    /\ UNCHANGED <<libVars, plaintext, encryptShift,
                   decryptCiphertext, decryptShift, decryptResult,
                   bruteForceInput, bruteForceResults, showBruteForceDialog>>

OnPlaintextReset ==
    /\ plaintext' = <<>>
    /\ UNCHANGED <<libVars, encryptShift, ciphertext,
                   decryptCiphertext, decryptShift, decryptResult,
                   bruteForceInput, bruteForceResults, showBruteForceDialog,
                   toast>>

OnDecryptCiphertextChange ==
    \E value \in CiphertextInputs :
        /\ decryptCiphertext' = value
        /\ UNCHANGED <<libVars, plaintext, encryptShift, ciphertext,
                       decryptShift, decryptResult,
                       bruteForceInput, bruteForceResults, showBruteForceDialog,
                       toast>>

OnDecryptShiftChange ==
    \E value \in DecryptShiftInputs :
        /\ decryptShift' = orZero(parseInt(value))
        /\ UNCHANGED <<libVars, plaintext, encryptShift, ciphertext,
                       decryptCiphertext, decryptResult,
                       bruteForceInput, bruteForceResults, showBruteForceDialog,
                       toast>>

handleDecrypt ==
    /\ IF isBlank(decryptCiphertext)
       THEN /\ toast' = Toast("Error", "Please enter text to decrypt", "destructive")
            /\ UNCHANGED decryptResult
       ELSE LET shift == parseInt(numberToString(decryptShift))
            IN  IF shift.nan
                THEN /\ toast' = Toast("Error", "Please enter a valid shift value",
                                       "destructive")
                     /\ UNCHANGED decryptResult
                ELSE /\ decryptResult' = decrypt(decryptCiphertext, shift.val)
                     /\ toast' = Toast("Success",
                                       <<"Text decrypted with shift", shift.val>>,
                                       "default")
    /\ UNCHANGED <<libVars, plaintext, encryptShift, ciphertext,
                   decryptCiphertext, decryptShift,
                   bruteForceInput, bruteForceResults, showBruteForceDialog>>

OnDecryptCiphertextReset ==
    /\ decryptCiphertext' = <<>>
    /\ UNCHANGED <<libVars, plaintext, encryptShift, ciphertext,
                   decryptShift, decryptResult,
                   bruteForceInput, bruteForceResults, showBruteForceDialog,
                   toast>>

OnBruteForceInputChange ==
    \E value \in BruteForceInputs :
        /\ bruteForceInput' = value
        /\ UNCHANGED <<libVars, plaintext, encryptShift, ciphertext,
                       decryptCiphertext, decryptShift, decryptResult,
                       bruteForceResults, showBruteForceDialog, toast>>

\* results.map(result => ({...result, score: findBestMatch([result]).score}))
withScores(results) ==
    [i \in 1 .. Len(results) |->
        [shift |-> results[i].shift,
         text |-> results[i].text,
         score |-> findBestMatch(<<results[i]>>).value.score]]

\* The comparator (a, b) => (b.score || 0) - (a.score || 0) is <= 0, a staying
\* before b, when a's score is at least b's.
staysBeforeAscending(a, b) == ~NumberGt(a.score, b.score)

staysBefore(a, b) == ~NumberGt(b.score, a.score)

\* Array.prototype.sort is stable: each element goes behind the elements
\* already placed that stay before it.
RECURSIVE sortInto(_, _)
sortInto(sorted, rest) ==
    IF rest = <<>> THEN sorted
    ELSE LET x == Head(rest)
             k == Cardinality({i \in 1 .. Len(sorted) : staysBefore(sorted[i], x)})
         IN  sortInto(SubSeq(sorted, 1, k) \o <<x>> \o SubSeq(sorted, k + 1, Len(sorted)),
                      Tail(rest))

sortByScore(results) == sortInto(<<>>, results)

handleBruteForce ==
    /\ UNCHANGED <<libVars, plaintext, encryptShift, ciphertext,
                   decryptCiphertext, decryptShift, decryptResult,
                   bruteForceInput>>
    /\ IF isBlank(bruteForceInput)
       THEN /\ toast' = Toast("Error", "Please enter text for brute-force",
                              "destructive")
            /\ UNCHANGED <<bruteForceResults, showBruteForceDialog>>
       ELSE /\ toast' = Toast("Complete",
                              "Brute-force analysis complete. Check results below.",
                              "default")
            /\ showBruteForceDialog' = TRUE
            /\ LET results == bruteForce(bruteForceInput)
                   resultsWithScores == withScores(results)
               IN  bruteForceResults' = sortByScore(resultsWithScores)

OnBruteForceInputReset ==
    /\ bruteForceInput' = <<>>
    /\ UNCHANGED <<libVars, plaintext, encryptShift, ciphertext,
                   decryptCiphertext, decryptShift, decryptResult,
                   bruteForceResults, showBruteForceDialog, toast>>

\* The "View All Results" button is rendered once there are results.
OnViewAllResults ==
    /\ Len(bruteForceResults) > 0
    /\ showBruteForceDialog' = TRUE
    /\ UNCHANGED <<libVars, plaintext, encryptShift, ciphertext,
                   decryptCiphertext, decryptShift, decryptResult,
                   bruteForceInput, bruteForceResults, toast>>

\* The open dialog is dismissed: onOpenChange(false).
OnDialogClose ==
    /\ showBruteForceDialog
    /\ showBruteForceDialog' = FALSE
    /\ UNCHANGED <<libVars, plaintext, encryptShift, ciphertext,
                   decryptCiphertext, decryptShift, decryptResult,
                   bruteForceInput, bruteForceResults, toast>>

\* The component is mounted; no call of the library is being observed.
InitUI ==
    /\ InitialComponent
    /\ op = "none"
    /\ argText = <<>>
    /\ argShift = 0
    /\ argResults = <<>>
    /\ ret = NoValue
    /\ outcome = "none"

NextUI ==
    \/ OnPlaintextChange
    \/ OnEncryptShiftChange
    \/ handleEncrypt
    \/ OnPlaintextReset
    \/ OnDecryptCiphertextChange
    \/ OnDecryptShiftChange
    \/ handleDecrypt
    \/ OnDecryptCiphertextReset
    \/ OnBruteForceInputChange
    \/ handleBruteForce
    \/ OnBruteForceInputReset
    \/ OnViewAllResults
    \/ OnDialogClose

SpecUI == InitUI /\ [][NextUI]_vars

(* ------------------------------ properties ---------------------------- *)

Returned(f) == op = f /\ outcome = "returned"

IsAsciiLetter(c) == (c >= 65 /\ c <= 90) \/ (c >= 97 /\ c <= 122)

HasAsciiLetter(text) == \E i \in 1 .. Len(text) : IsAsciiLetter(text[i])

\* The reference Caesar rotation: the letter at alphabet position p goes to
\* position (p + k) mod 26 of the same case, with the mathematical modulus;
\* any other character stays.
RefRotate(c, k) ==
    IF c >= 65 /\ c <= 90 THEN 65 + (((c - 65) + (k % 26)) % 26)
    ELSE IF c >= 97 /\ c <= 122 THEN 97 + (((c - 97) + (k % 26)) % 26)
    ELSE c

\* C1: round trip: decrypting what encrypt(t, k) returned, with the same
\* shift k (negative, zero or beyond 25), gives back exactly t.
C1_RoundTrip ==
    Returned("encrypt") => decrypt(ret, argShift) = argText

C1_Witness ==
    /\ Returned("encrypt")
    /\ argShift > 26
    /\ argText = <<90, 32, 97>>
    /\ ret # argText
    /\ decrypt(ret, argShift) = argText

\* C2: normalizeShift returns, for every integer s, the r with 0 <= r < 26
\* congruent to s modulo 26, also for negative s; normalize(-1) = 25,
\* normalize(27) = 1, normalize(0) = 0.
C2_NormalizeRange ==
    Returned("normalizeShift") =>
        /\ ret \in 0 .. 25
        /\ (ret - argShift) % 26 = 0
        /\ ret = argShift % 26
        /\ (argShift = -1 => ret = 25)
        /\ (argShift = 27 => ret = 1)
        /\ (argShift = 0 => ret = 0)

C2_Witness ==
    /\ Returned("normalizeShift")
    /\ argShift = -27
    /\ ret = 25

\* C3: encrypt maps each character on its own: an uppercase (lowercase)
\* letter at position p becomes the uppercase (lowercase) letter at position
\* (p + normalize(shift)) mod 26, so the result is the reference Caesar
\* rotation of the text; encrypt("Hello, World!", 3) = "Khoor, Zruog!".
C3_ReferenceRotation ==
    Returned("encrypt") =>
        /\ ret = [i \in 1 .. Len(argText) |-> RefRotate(argText[i], argShift)]
        /\ \A i \in 1 .. Len(argText) :
              /\ (argText[i] \in 65 .. 90 => ret[i] \in 65 .. 90)
              /\ (argText[i] \in 97 .. 122 => ret[i] \in 97 .. 122)
        /\ (argText = HelloWorld /\ argShift = 3 => ret = KhoorZruog)

C3_Witness ==
    /\ Returned("encrypt")
    /\ argText = HelloWorld
    /\ argShift = 3
    /\ ret = KhoorZruog

\* C4: encrypt(t, k) is as long as t, every character of t that is not an
\* ASCII letter is at the same position of the result, and the empty text
\* gives the empty text.
C4_LengthAndNonLetters ==
    Returned("encrypt") =>
        /\ Len(ret) = Len(argText)
        /\ \A i \in 1 .. Len(argText) :
              ~IsAsciiLetter(argText[i]) => ret[i] = argText[i]
        /\ (argText = <<>> => ret = <<>>)

C4_Witness ==
    /\ Returned("encrypt")
    /\ argText = <<64, 97, 8490>>
    /\ argShift = -1
    /\ ret = <<64, 122, 8490>>

\* C5: decrypt(t, k) = encrypt(t, -k) = encrypt(t, normalize(-k)), which is
\* the text of the entry of bruteForce(t) whose shift is normalize(-k);
\* decrypt("Khoor, Zruog!", 3) = "Hello, World!", the shift-23 candidate.
C5_DecryptIsNegatedEncrypt ==
    Returned("decrypt") =>
        LET k == normalizeShift(-argShift)
            entry == bruteForce(argText)[k + 1]
        IN  /\ ret = encrypt(argText, -argShift)
            /\ ret = encrypt(argText, k)
            /\ entry.shift = k
            /\ entry.text = ret
            /\ (argText = KhoorZruog /\ argShift = 3 => k = 23 /\ ret = HelloWorld)

C5_Witness ==
    /\ Returned("decrypt")
    /\ argText = KhoorZruog
    /\ argShift = 3
    /\ ret = HelloWorld
    /\ bruteForce(argText)[24] = [shift |-> 23, text |-> HelloWorld]

ObservedCount(text, letter) ==
    LET lower == toLowerCase(text)
    IN  Cardinality({i \in 1 .. Len(lower) : lower[i] = letter})

RECURSIVE SumRange(_, _, _)
SumRange(F(_), lo, hi) == IF lo > hi THEN 0 ELSE F(lo) + SumRange(F, lo + 1, hi)

LetterCount(text) ==
    LET Count(l) == ObservedCount(text, l) IN SumRange(Count, 97, 122)

\* D over all 26 reference letters, in units of 1 / (FreqScale * LetterCount).
DeviationAll(text) ==
    LET n == LetterCount(text)
        Dev(l) == Abs(FreqScale * ObservedCount(text, l) - EnglishFreqTable[l - 96] * n)
    IN  SumRange(Dev, 97, 122)

\* D over the letters that appear in the text only.
DeviationPresent(text) ==
    LET n == LetterCount(text)
        Dev(l) == IF ObservedCount(text, l) = 0 THEN 0
                  ELSE Abs(FreqScale * ObservedCount(text, l)
                           - EnglishFreqTable[l - 96] * n)
    IN  SumRange(Dev, 97, 122)

\* max(0, 1 - d / (FreqScale * n))
OneMinusClamped(d, n) == Number(Max(0, FreqScale * n - d), FreqScale * n)

\* C7 as stated: for a text with an ASCII letter, score = max(0, 1 - D) with D
\* summed over all 26 reference letters, a letter absent from the text
\* contributing its reference frequency.
C7_AllTwentySixLetters ==
    (Returned("getEnglishScore") /\ HasAsciiLetter(argText)) =>
        ret = OneMinusClamped(DeviationAll(argText), LetterCount(argText))

\* C7 as amended: for a text with an ASCII letter, score = max(0, 1 - D) with
\* D summed over the letters that appear in the text only; a letter absent
\* from the text contributes nothing to D.
C7_PresentLettersOnly ==
    (Returned("getEnglishScore") /\ HasAsciiLetter(argText)) =>
        ret = OneMinusClamped(DeviationPresent(argText), LetterCount(argText))

C7_Witness ==
    /\ Returned("getEnglishScore")
    /\ argText = <<97, 32, 90>>
    /\ ret = Number(447, 5000)

\* C8: score(text) is in [0, 1] for every text, is exactly 0 when the text
\* holds no ASCII letter, and the call never fails.
C8_RangeAndZeroWithoutLetters ==
    /\ (op = "getEnglishScore" => outcome \in {"called", "returned"})
    /\ Returned("getEnglishScore") =>
          /\ ret.num >= 0
          /\ ret.num <= ret.den
          /\ (~HasAsciiLetter(argText) => ret = Number(0, 1))

\* C9: for a non-empty candidate sequence findBestMatch returns a candidate
\* of the sequence whose score no other candidate exceeds, with the score
\* field the score of the returned text, and among the candidates of maximal
\* score the one of smallest index.
C9_FirstMaximum ==
    (op = "findBestMatch" /\ outcome # "called" /\ argResults # <<>>) =>
        /\ outcome = "returned"
        /\ \E i \in 1 .. Len(argResults) :
              /\ ret.shift = argResults[i].shift
              /\ ret.text = argResults[i].text
              /\ ret.score = getEnglishScore(argResults[i].text)
              /\ \A j \in 1 .. Len(argResults) :
                    ~NumberGt(getEnglishScore(argResults[j].text), ret.score)
              /\ \A j \in 1 .. (i - 1) :
                    NumberGt(ret.score, getEnglishScore(argResults[j].text))

C9_Witness ==
    /\ Returned("findBestMatch")
    /\ argResults = <<[shift |-> 0, text |-> <<122>>],
                      [shift |-> 0, text |-> <<97>>],
                      [shift |-> 1, text |-> <<65>>]>>
    /\ ret = [shift |-> 0, text |-> <<97>>, score |-> Number(41, 500)]

\* C10: findBestMatch on the empty candidate sequence throws instead of
\* returning a result, and no other call of the library fails.
C10_EmptyThrows ==
    /\ (op = "findBestMatch" /\ outcome # "called" /\ argResults = <<>>) =>
          (outcome = "TypeError" /\ ret = NoValue)
    /\ outcome \notin {"called", "returned"} =>
          (op = "findBestMatch" /\ argResults = <<>>)

C10_Witness ==
    /\ op = "findBestMatch"
    /\ argResults = <<>>
    /\ outcome = "TypeError"

\* C11: bruteForce("Khoor, Zruog!") holds the candidate of shift 23 with text
\* "Hello, World!", and findBestMatch on these 26 candidates returns it, as
\* the candidate of highest score.
C11_HelloWorldIsBest ==
    (Returned("findBestMatch") /\ argResults = bruteForce(KhoorZruog)) =>
        /\ argResults[24] = [shift |-> 23, text |-> HelloWorld]
        /\ ret.shift = 23
        /\ ret.text = HelloWorld
        /\ \A i \in 1 .. 26 :
              ~NumberGt(getEnglishScore(argResults[i].text),
                        getEnglishScore(HelloWorld))

\* C12: real-time preview: after any sequence of edits and clicks the shown
\* encrypted text is encrypt(plaintext, encryptShift) and the shown decrypted
\* text is decrypt(decryptCiphertext, decryptShift), for the current fields.
C12_PreviewIsCurrent ==
    /\ ciphertext = encrypt(plaintext, encryptShift)
    /\ decryptResult = decrypt(decryptCiphertext, decryptShift)

\* Empty or made of white space only.
IsBlankText(text) == \A i \in 1 .. Len(text) : IsWhiteSpace(text[i])

\* The list holds the 26 candidates of bruteForce(input), each shift once,
\* each with the score of its text, in an order of non-increasing score.
IsRankedBruteForce(list, input) ==
    LET candidates == bruteForce(input)
    IN  /\ Len(list) = 26
        /\ \A k \in 0 .. 25 :
              \E i \in 1 .. 26 :
                  /\ list[i].shift = k
                  /\ list[i].text = candidates[k + 1].text
        /\ \A i \in 1 .. 26 : list[i].score = getEnglishScore(list[i].text)
        /\ \A i \in 1 .. 25 : ~NumberGt(list[i + 1].score, list[i].score)

====
